---------------------------- MODULE Spec2Model ----------------------------
(***************************************************************************)
(* A model of the OC-SORT tracker of this repository (src/src/*.rs).       *)
(*                                                                         *)
(* Numbers.  The program computes in f64; the model computes in integers:  *)
(*   - box corners are integers; a box centre is kept doubled (cx2 = x_1 + *)
(*     x_2), so that the centre of every integer box is exact;             *)
(*   - the aspect ratio r = w / (h + EPSILON) is kept as the fraction      *)
(*     rn / rd (EPSILON, 2^-52, is dropped);                               *)
(*   - IoU, the IoU threshold and the scores are kept scaled:              *)
(*     iou_threshold is the configured threshold times IOU_MULTIPLIER,     *)
(*     scores are in hundredths.                                           *)
(* Indices.  Rust indexes from 0, TLA+ sequences from 1: every index and   *)
(* every position of the model is the program's plus one.                  *)
(*                                                                         *)
(* The Kalman filter (crate kfilter) and the assignment solver (crate      *)
(* pathfinding) are libraries, not code of this repository.  The filter is *)
(* modelled with gain 1 (a measurement replaces the position, the velocity *)
(* becomes the displacement since the previous estimate); the solver is    *)
(* modelled as returning any assignment of minimal total weight.           *)
(***************************************************************************)
EXTENDS Integers, Sequences, FiniteSets, TLC

VARIABLES
    trackers,    \* OCSort.trackers of each tracker instance: a sequence of KalmanBoxTracker
    cfg,         \* the constructor arguments of each tracker instance
    ID_COUNTER,  \* the process-wide static ID_COUNTER
    out,         \* the list returned by the last update / get_trackers call of each instance
    last,        \* history: what the last update call did (input, culled, match lists, births)
    created,     \* history: the ids handed out so far, in creation order
    dead,        \* history: the ids of the tracks removed from a live list so far
    calls,       \* history: the number of update calls made so far
    script,      \* the frames still to be fed (scenario specifications only)
    scen,        \* history of a scenario: what it recorded of its first frame
    pending      \* the update call each instance's thread is in, and the tracks it has
                 \* still to create (concurrent specification only)

vars == <<trackers, cfg, ID_COUNTER, out, last, created, dead, calls, script, scen, pending>>

-----------------------------------------------------------------------------
(* Bounds and input domains *)

MaxFrames == 3

Instances == {1, 2}

IOU_MULTIPLIER == 10000

Max(a, b) == IF a >= b THEN a ELSE b

Min(a, b) == IF a <= b THEN a ELSE b

Sgn(a) == IF a > 0 THEN 1 ELSE IF a < 0 THEN -1 ELSE 0

Abs(a) == IF a >= 0 THEN a ELSE -a

Range(s) == {s[i] : i \in DOMAIN s}

\* floor of the square root; f64::sqrt on the perfect squares the model's boxes give
ISqrt(n) == CHOOSE k \in 0..n : k * k <= n /\ (k + 1) * (k + 1) > n

\* `as i64` of a quotient of integers: truncation toward zero
TruncDiv(a, b) == IF a >= 0 THEN a \div b ELSE -((-a) \div b)

-----------------------------------------------------------------------------
(* bbox.rs *)

BBox_new(x_1, y_1, x_2, y_2) ==
    IF x_1 > x_2 \/ y_1 > y_2
    THEN [x_1 |-> 0, y_1 |-> 0, x_2 |-> 0, y_2 |-> 0]
    ELSE [x_1 |-> x_1, y_1 |-> y_1, x_2 |-> x_2, y_2 |-> y_2]

\* (cx, cy, area, r): cx2, cy2 are the doubled centre, r = rn / rd
to_observation_vector(b) ==
    LET w == Max(b.x_2 - b.x_1, 0)
        h == Max(b.y_2 - b.y_1, 0)
    IN  [cx2 |-> 2 * b.x_1 + w, cy2 |-> 2 * b.y_1 + h, s |-> w * h, rn |-> w, rd |-> h]

\* A state whose area or ratio is 0 gives w = 0 and h = 0/0 = NaN in the program, a
\* box whose IoU with every box is 0: the model gives the empty box at the centre.
from_state_vector(x) ==
    IF x.s < 0 \/ x.rn < 0
    THEN BBox_new(0, 0, 0, 0)
    ELSE LET w == IF x.rd = 0 THEN 0 ELSE ISqrt((x.s * x.rn) \div x.rd)
             h == IF w = 0 THEN 0 ELSE x.s \div w
         IN  BBox_new((x.cx2 - w) \div 2, (x.cy2 - h) \div 2,
                      (x.cx2 + w) \div 2, (x.cy2 + h) \div 2)

area(b) == Max((b.x_2 - b.x_1) * (b.y_2 - b.y_1), 0)

\* iou as the fraction num / den; den = 0 stands for the program's `return 0.0`
iou(b, other) ==
    LET iwidth  == Max(Min(b.x_2, other.x_2) - Max(b.x_1, other.x_1), 0)
        iheight == Max(Min(b.y_2, other.y_2) - Max(b.y_1, other.y_1), 0)
        iarea   == iwidth * iheight
        union   == area(b) + area(other) - iarea
    IN  IF union = 0 THEN [num |-> 0, den |-> 1] ELSE [num |-> iarea, den |-> union]

\* The unit vector from other's centre to b's centre.  The boxes of the model share
\* their vertical extent, so the difference lies on the x axis and diff / norm is
\* its sign; <<0, 0>> is the zero vector.
speed_direction(b, other) ==
    LET o1 == to_observation_vector(b)
        o2 == to_observation_vector(other)
    IN  <<Sgn(o1.cx2 - o2.cx2), Sgn(o1.cy2 - o2.cy2)>>

-----------------------------------------------------------------------------
(* The filter of crate kfilter, as kalman_box_tracker.rs builds and drives it.   *)
(* State [cx, cy, s, r, vx, vy, vs]: F adds each velocity to its coordinate.     *)

RECURSIVE GCD(_, _)
GCD(a, b) == IF b = 0 THEN a ELSE GCD(b, a % b)

\* the fraction n / d in lowest terms (d = 0 is kept: an infinite ratio)
Fraction(n, d) ==
    LET g == GCD(Abs(n), Abs(d))
    IN  IF g = 0 THEN [rn |-> 0, rd |-> 1] ELSE [rn |-> n \div g, rd |-> d \div g]

\* Kalman1M::new_custom(system, P, measurement): x_initial is the observation of the
\* birth box, the three velocities are 0
kalman_filter_new(bbox) ==
    LET z == to_observation_vector(bbox)
        r == Fraction(z.rn, z.rd)
    IN  [cx2 |-> z.cx2, cy2 |-> z.cy2, s |-> z.s, rn |-> r.rn, rd |-> r.rd,
         vx2 |-> 0, vy2 |-> 0, vs |-> 0]

\* kalman_filter.predict(): x <- F x
kalman_filter_predict(x) ==
    [x EXCEPT !.cx2 = @ + x.vx2, !.cy2 = @ + x.vy2, !.s = @ + x.vs]

\* kalman_filter.update(z) with gain 1: the position becomes the measurement and the
\* innovation is added to the velocity
kalman_filter_update(x, z) ==
    [cx2 |-> z.cx2, cy2 |-> z.cy2, s |-> z.s, rn |-> z.rn, rd |-> z.rd,
     vx2 |-> x.vx2 + (z.cx2 - x.cx2),
     vy2 |-> x.vy2 + (z.cy2 - x.cy2),
     vs  |-> x.vs + (z.s - x.s)]

-----------------------------------------------------------------------------
(* kalman_box_tracker.rs *)

\* ID_COUNTER.fetch_add(1, Ordering::Relaxed): the value stored; the value returned,
\* the new track's id, is the counter before.  The AtomicU32 wraps at 2^32, which no
\* run of the model reaches (and which TLC's integers cannot hold).
\* a counter that is read but never advanced
fetch_add_stuck(counter) == counter

\* a counter one bit wide
fetch_add_one_bit(counter) == (counter + 1) % 2

fetch_add(counter) == counter + 1

\* det_class, hits, lived and missed are history, not fields of the program: the
\* class of the detection that created or last updated the track, the number of
\* consecutive OCSort::update calls, up to the last one, that associated the track
\* (its creation is the first), the number of OCSort::update calls completed since
\* the one that created the track, and the number of them since the last one that
\* associated or created it; the caller sets them
KalmanBoxTracker_new(bbox, class, delta_t, id) ==
    [kalman_filter     |-> kalman_filter_new(bbox),
     id                |-> id,
     prev_observations |-> <<[time_step |-> 0, bbox |-> bbox]>>,
     age               |-> 0,
     hit_streak        |-> 1,
     delta_t           |-> delta_t,
     speed_direction   |-> <<0, 0>>,
     class             |-> class,
     time_since_update |-> 0,
     det_class         |-> class,
     hits              |-> 1,
     lived             |-> 0,
     missed            |-> 0]

get_last_observation(t) == t.prev_observations[Len(t.prev_observations)].bbox

\* time_step.abs_diff(age.saturating_sub(delta_t))
dt_key(t, obs) == Abs(obs.time_step - Max(t.age - t.delta_t, 0))

\* a min_by_key that returns the last of the minimal elements
get_observation_dt_time_steps_away_last(t) ==
    LET ring == t.prev_observations
        best == CHOOSE i \in DOMAIN ring :
                    /\ \A j \in DOMAIN ring : dt_key(t, ring[i]) <= dt_key(t, ring[j])
                    /\ \A j \in (i + 1)..Len(ring) : dt_key(t, ring[j]) > dt_key(t, ring[i])
    IN  ring[best].bbox

\* min_by_key returns the first of the minimal elements
get_observation_dt_time_steps_away(t) ==
    LET ring == t.prev_observations
        best == CHOOSE i \in DOMAIN ring :
                    /\ \A j \in DOMAIN ring : dt_key(t, ring[i]) <= dt_key(t, ring[j])
                    /\ \A j \in 1..(i - 1) : dt_key(t, ring[j]) > dt_key(t, ring[i])
    IN  ring[best].bbox

get_bbox(t) == from_state_vector(t.kalman_filter)

get_state(t) == [id |-> t.id, bbox |-> from_state_vector(t.kalman_filter), class |-> t.class]

update_speed_direction(t, bbox) ==
    [t EXCEPT !.speed_direction = speed_direction(bbox, get_observation_dt_time_steps_away(t))]

\* (steps_between - t) / steps_between * last + t / steps_between * z
z_interpolated(lastz, z, k, t) ==
    LET r == Fraction((k - t) * lastz.rn * z.rd + t * z.rn * lastz.rd, k * lastz.rd * z.rd)
    IN  [cx2 |-> ((k - t) * lastz.cx2 + t * z.cx2) \div k,
         cy2 |-> ((k - t) * lastz.cy2 + t * z.cy2) \div k,
         s   |-> ((k - t) * lastz.s + t * z.s) \div k,
         rn  |-> r.rn, rd |-> r.rd]

\* the body of `for t in 1..=steps_between`, from step t on
RECURSIVE sub_updates(_, _, _, _, _)
sub_updates(x, lastz, z, k, t) ==
    IF t > k THEN x
    ELSE LET u == kalman_filter_update(x, z_interpolated(lastz, z, k, t))
         IN  sub_updates(IF t < k THEN kalman_filter_predict(u) ELSE u, lastz, z, k, t + 1)

\* history: the calls the loop of update_kalman_filter makes on the filter, from
\* step t on: each measurement update with the measurement it is given, each predict
RECURSIVE filter_calls(_, _, _, _)
filter_calls(lastz, z, k, t) ==
    IF t > k THEN <<>>
    ELSE <<[op |-> "update", z |-> z_interpolated(lastz, z, k, t)]>>
             \o (IF t < k THEN <<[op |-> "predict", z |-> <<>>]>> ELSE <<>>)
             \o filter_calls(lastz, z, k, t + 1)

steps_between(t) == t.age - t.prev_observations[Len(t.prev_observations)].time_step

update_kalman_filter(t, z) ==
    LET last_observation == t.prev_observations[Len(t.prev_observations)]
    IN  [t EXCEPT !.kalman_filter =
            sub_updates(@, to_observation_vector(last_observation.bbox), z, steps_between(t), 1)]

\* a ring entry stamped two steps ahead of the track's age
add_bbox_to_observations_ahead(t, bbox) ==
    LET ring   == t.prev_observations
        popped == IF Len(ring) >= t.delta_t /\ Len(ring) > 0 THEN Tail(ring) ELSE ring
    IN  [t EXCEPT !.prev_observations = Append(popped, [time_step |-> t.age + 2, bbox |-> bbox])]

\* a ring that takes the new entry at its front
add_bbox_to_observations_front(t, bbox) ==
    LET ring   == t.prev_observations
        popped == IF Len(ring) >= t.delta_t /\ Len(ring) > 0 THEN Tail(ring) ELSE ring
    IN  [t EXCEPT !.prev_observations = <<[time_step |-> t.age, bbox |-> bbox]>> \o popped]

add_bbox_to_observations(t, bbox) ==
    LET ring   == t.prev_observations
        popped == IF Len(ring) >= t.delta_t /\ Len(ring) > 0 THEN Tail(ring) ELSE ring
    IN  [t EXCEPT !.prev_observations = Append(popped, [time_step |-> t.age, bbox |-> bbox])]

\* an update that leaves time_since_update as predict set it
KalmanBoxTracker_update_no_reset(t, bbox) ==
    LET t1 == update_speed_direction(t, bbox)
        t2 == update_kalman_filter(t1, to_observation_vector(bbox))
        t3 == add_bbox_to_observations(t2, bbox)
    IN  [t3 EXCEPT !.hit_streak = @ + 1]

KalmanBoxTracker_update(t, bbox) ==
    LET t1 == update_speed_direction(t, bbox)
        t2 == update_kalman_filter(t1, to_observation_vector(bbox))
        t3 == add_bbox_to_observations(t2, bbox)
    IN  [t3 EXCEPT !.time_since_update = 0, !.hit_streak = @ + 1]

\* a predict that leaves the age as it is
predict_ageless(t) ==
    [t EXCEPT !.hit_streak = IF t.time_since_update > 0 THEN 0 ELSE @,
              !.time_since_update = @ + 1,
              !.kalman_filter = kalman_filter_predict(@)]

predict(t) ==
    [t EXCEPT !.age = @ + 1,
              !.hit_streak = IF t.time_since_update > 0 THEN 0 ELSE @,
              !.time_since_update = @ + 1,
              !.kalman_filter = kalman_filter_predict(@)]

-----------------------------------------------------------------------------
(* associate.rs.  A Matrix<i64> is [rows, columns, at], at[<<i, j>>] its entries. *)

Matrix_new(rows, columns, value) ==
    [rows |-> rows, columns |-> columns,
     at |-> [p \in (1..rows) \X (1..columns) |-> value]]

transposed(m) ==
    [rows |-> m.columns, columns |-> m.rows,
     at |-> [p \in (1..m.columns) \X (1..m.rows) |-> m.at[<<p[2], p[1]>>]]]

\* a cost that takes every two boxes to coincide
iou_cost_full(b1, b2) == -IOU_MULTIPLIER

\* -(iou * IOU_MULTIPLIER) as i64: the cast truncates toward zero
iou_cost(b1, b2) ==
    LET f == iou(b1, b2)
    IN  -TruncDiv(f.num * IOU_MULTIPLIER, f.den)

calc_iou_cost_matrix(bboxes_1, bboxes_2) ==
    [rows |-> Len(bboxes_1), columns |-> Len(bboxes_2),
     at |-> [p \in (1..Len(bboxes_1)) \X (1..Len(bboxes_2)) |->
                iou_cost(bboxes_1[p[1]], bboxes_2[p[2]])]]

CLASS_COST == 1000000

add_class_cost_matrix(detections, detection_indices, trks, tracker_indices, cost_matrix) ==
    [cost_matrix EXCEPT !.at =
        [p \in (1..Len(detection_indices)) \X (1..Len(tracker_indices)) |->
            cost_matrix.at[p] +
            (IF detections[detection_indices[p[1]]].class = trks[tracker_indices[p[2]]].class
             THEN 0 ELSE CLASS_COST)]]

\* ((acos(dot) - PI) / PI * 0.2 * IOU_MULTIPLIER) as i64, for the dot products of
\* axis directions: acos(1) = 0, acos(0) = PI/2, acos(-1) = PI
diff_angle_cost(dot) ==
    IF dot >= 1 THEN -((2 * IOU_MULTIPLIER) \div 10)
    ELSE IF dot = 0 THEN -(IOU_MULTIPLIER \div 10)
    ELSE 0

\* the loop runs over every tracker of `trackers`, not over tracker_indices
add_speed_cost_matrix(detection_bboxes, trks, cost_matrix) ==
    [cost_matrix EXCEPT !.at =
        [p \in (1..Len(detection_bboxes)) \X (1..Len(trks)) |->
            LET tracker         == trks[p[2]]
                inertia         == tracker.speed_direction
                bbox_2          == get_observation_dt_time_steps_away(tracker)
                direction       == speed_direction(detection_bboxes[p[1]], bbox_2)
            IN  cost_matrix.at[p]
                + diff_angle_cost(inertia[1] * direction[1] + inertia[2] * direction[2])]]

get_bboxes(detections, detection_indices, trks, tracker_indices) ==
    [detection_bboxes |-> [k \in 1..Len(detection_indices) |-> detections[detection_indices[k]].bbox],
     tracker_bboxes   |-> [k \in 1..Len(tracker_indices) |-> get_bbox(trks[tracker_indices[k]])]]

TotalWeight(weights, a) ==
    LET RECURSIVE Sum(_)
        Sum(i) == IF i = 0 THEN 0 ELSE weights.at[<<i, a[i]>>] + Sum(i - 1)
    IN  Sum(weights.rows)

\* pathfinding::kuhn_munkres_min(weights).1, for rows <= columns: every row gets a
\* column of its own and the total weight is minimal.  Which of several minimal
\* assignments the library returns is not modelled: the result is any of them.
kuhn_munkres_min(weights) ==
    LET all == {a \in [1..weights.rows -> 1..weights.columns] :
                    \A i, j \in 1..weights.rows : i # j => a[i] # a[j]}
        totals  == {TotalWeight(weights, a) : a \in all}
        minimum == CHOOSE m \in totals : \A w \in totals : m <= w
    IN  {a \in all : TotalWeight(weights, a) = minimum}

\* what calculate_matching returns when the solver returned assignment_vector.
\* The result carries history besides the triple: the index lists the function was
\* given, that the solver ran, and the size of the matrix the solver was given.
matching_of(detections, detection_indices, trks, tracker_indices, cost_matrix, iou_matrix, iou_threshold, assignment_vector) ==
    LET transpose  == cost_matrix.rows > cost_matrix.columns
        columns    == IF transpose THEN cost_matrix.rows ELSE cost_matrix.columns
        assigned   == {assignment_vector[i] : i \in 1..Len(assignment_vector)}
        NotAssigned(col) == col \notin assigned
        \* (0..weights.columns).filter(|col| !assigned.contains(col))
        unassigned == SelectSeq([col \in 1..columns |-> col], NotAssigned)
        RECURSIVE Loop(_, _)
        Loop(i, acc) ==
            IF i > Len(assignment_vector) THEN acc
            ELSE LET j == assignment_vector[i]
                     detection_indices_index == IF transpose THEN j ELSE i
                     tracker_indices_index   == IF transpose THEN i ELSE j
                     detection_index == detection_indices[detection_indices_index]
                     tracker_index   == tracker_indices[tracker_indices_index]
                     invalid_iou   == -iou_matrix.at[<<detection_indices_index, tracker_indices_index>>]
                                          < iou_threshold
                     invalid_class == detections[detection_index].class # trks[tracker_index].class
                 IN  IF invalid_iou \/ invalid_class
                     THEN Loop(i + 1,
                               [acc EXCEPT !.unmatched_detections = Append(@, detection_index),
                                           !.unmatched_trackers = Append(@, tracker_index)])
                     ELSE Loop(i + 1,
                               [acc EXCEPT !.matched = Append(@, <<detection_index, tracker_index>>)])
    IN  Loop(1, [matched |-> <<>>,
                 unmatched_detections |-> IF transpose THEN unassigned ELSE <<>>,
                 unmatched_trackers   |-> IF transpose THEN <<>> ELSE unassigned,
                 detection_indices |-> detection_indices, tracker_indices |-> tracker_indices,
                 solver  |-> TRUE,
                 rows    |-> IF transpose THEN cost_matrix.columns ELSE cost_matrix.rows,
                 columns |-> columns])

\* the results calculate_matching can return: one for each assignment the solver
\* can return
calculate_matching(detections, detection_indices, trks, tracker_indices, cost_matrix, iou_matrix, iou_threshold) ==
    LET transpose == cost_matrix.rows > cost_matrix.columns
        weights   == IF transpose THEN transposed(cost_matrix) ELSE cost_matrix
    IN  {matching_of(detections, detection_indices, trks, tracker_indices,
                     cost_matrix, iou_matrix, iou_threshold, a) : a \in kuhn_munkres_min(weights)}

\* the early return of byte_associate and observation_centric_recovery; the solver
\* does not run
no_matching(detection_indices, tracker_indices) ==
    [matched |-> <<>>, unmatched_detections |-> detection_indices,
     unmatched_trackers |-> tracker_indices,
     detection_indices |-> detection_indices, tracker_indices |-> tracker_indices,
     solver |-> FALSE, rows |-> 0, columns |-> 0]

associate_detections_to_trackers(detections, detection_indices, trks, tracker_indices, iou_threshold) ==
    LET b           == get_bboxes(detections, detection_indices, trks, tracker_indices)
        iou_matrix  == calc_iou_cost_matrix(b.detection_bboxes, b.tracker_bboxes)
        speed       == add_speed_cost_matrix(b.detection_bboxes, trks, iou_matrix)
        cost_matrix == add_class_cost_matrix(detections, detection_indices, trks, tracker_indices, speed)
    IN  calculate_matching(detections, detection_indices, trks, tracker_indices,
                           cost_matrix, iou_matrix, iou_threshold)

byte_associate(detections, detection_indices, trks, tracker_indices, iou_threshold) ==
    IF detection_indices = <<>> \/ tracker_indices = <<>>
    THEN {no_matching(detection_indices, tracker_indices)}
    ELSE LET b           == get_bboxes(detections, detection_indices, trks, tracker_indices)
             iou_matrix  == calc_iou_cost_matrix(b.detection_bboxes, b.tracker_bboxes)
             cost_matrix == add_class_cost_matrix(detections, detection_indices, trks,
                                                  tracker_indices, iou_matrix)
         IN  calculate_matching(detections, detection_indices, trks, tracker_indices,
                                cost_matrix, iou_matrix, iou_threshold)

observation_centric_recovery(detections, detection_indices, trks, tracker_indices, iou_threshold) ==
    IF detection_indices = <<>> \/ tracker_indices = <<>>
    THEN {no_matching(detection_indices, tracker_indices)}
    ELSE LET detection_bboxes     == [k \in 1..Len(detection_indices) |->
                                         detections[detection_indices[k]].bbox]
             tracker_observations == [k \in 1..Len(tracker_indices) |->
                                         get_last_observation(trks[tracker_indices[k]])]
             iou_matrix  == calc_iou_cost_matrix(detection_bboxes, tracker_observations)
             cost_matrix == add_class_cost_matrix(detections, detection_indices, trks,
                                                  tracker_indices, iou_matrix)
         IN  calculate_matching(detections, detection_indices, trks, tracker_indices,
                                cost_matrix, iou_matrix, iou_threshold)

-----------------------------------------------------------------------------
(* oc_sort_tracker.rs *)

\* a Detection; score is in hundredths
Detection(bbox, class, score) == [bbox |-> bbox, class |-> class, score |-> score]

\* OCSort::new; iou_threshold is the threshold times IOU_MULTIPLIER, score_threshold
\* is in hundredths
OCSort_new(max_age, iou_threshold, delta_t, score_threshold, min_hit_streak) ==
    [max_age |-> max_age, iou_threshold |-> iou_threshold, delta_t |-> delta_t,
     score_threshold |-> score_threshold, min_hit_streak |-> min_hit_streak]

\* a filter that ignores hit_streak
emitted_any_streak(tracker, min_hit_streak) == tracker.time_since_update < 1

emitted(tracker, min_hit_streak) ==
    tracker.time_since_update < 1 /\ tracker.hit_streak >= min_hit_streak

get_trackers(trks, min_hit_streak) ==
    LET Emitted(tracker) == emitted(tracker, min_hit_streak)
        kept == SelectSeq(trks, Emitted)
    IN  [k \in 1..Len(kept) |-> get_state(kept[k])]

\* a closure that tolerates one more missed call
retain_off_by_one(tracker, max_age) == tracker.time_since_update <= max_age + 1

\* the closure of self.trackers.retain
retain(tracker, max_age) == tracker.time_since_update <= max_age

is_high_score(detection, score_threshold) == detection.score >= score_threshold

\* the counter after n fetch_add calls
RECURSIVE counter_after(_, _)
counter_after(counter, n) == IF n = 0 THEN counter ELSE fetch_add(counter_after(counter, n - 1))

\* the call of KalmanBoxTracker::new in the `self.trackers.is_empty()` branch
new_when_no_trackers(detection, self, id) ==
    [KalmanBoxTracker_new(detection.bbox, self.delta_t, detection.class, id)
        EXCEPT !.det_class = detection.class]

\* the call of KalmanBoxTracker::new at the end of update
new_for_unmatched(detection, self, id) ==
    [KalmanBoxTracker_new(detection.bbox, detection.class, self.delta_t, id)
        EXCEPT !.det_class = detection.class]

\* `for &(detection_index, tracker_index) in matched ... { trackers[..].update(..) }`
RECURSIVE update_matched(_, _, _)
update_matched(trks, detections, pairs) ==
    IF pairs = <<>> THEN trks
    ELSE LET detection_index == Head(pairs)[1]
             tracker_index   == Head(pairs)[2]
             updated == [KalmanBoxTracker_update(trks[tracker_index], detections[detection_index].bbox)
                            EXCEPT !.det_class = detections[detection_index].class]
         IN  update_matched([trks EXCEPT ![tracker_index] = updated], detections, Tail(pairs))

\* the three association calls of update, each with what the one before returned
cascade(detections, high_score_indices, low_score_indices, trks, iou_threshold) ==
    UNION { UNION { { [primary |-> r1, byte |-> r2, ocr |-> r3] :
                        r3 \in observation_centric_recovery(detections, r1.unmatched_detections,
                                                            trks, r2.unmatched_trackers, iou_threshold) } :
                    r2 \in byte_associate(detections, low_score_indices, trks,
                                          r1.unmatched_trackers, iou_threshold) } :
            r1 \in associate_detections_to_trackers(detections, high_score_indices, trks,
                                                    [k \in 1..Len(trks) |-> k], iou_threshold) }

\* history: age - last_observation.time_step of every KalmanBoxTracker::update of
\* the update loop, in the order of the loop
RECURSIVE steps_of_updates(_, _, _)
steps_of_updates(trks, detections, pairs) ==
    IF pairs = <<>> THEN <<>>
    ELSE LET tracker_index == Head(pairs)[2]
             updated == KalmanBoxTracker_update(trks[tracker_index], detections[Head(pairs)[1]].bbox)
         IN  <<steps_between(trks[tracker_index])>>
                 \o steps_of_updates([trks EXCEPT ![tracker_index] = updated], detections, Tail(pairs))

\* history: the filter calls of every KalmanBoxTracker::update of the update loop,
\* in the order of the loop
RECURSIVE filter_calls_of_updates(_, _, _)
filter_calls_of_updates(trks, detections, pairs) ==
    IF pairs = <<>> THEN <<>>
    ELSE LET tracker_index == Head(pairs)[2]
             bbox    == detections[Head(pairs)[1]].bbox
             tracker == update_speed_direction(trks[tracker_index], bbox)
             updated == KalmanBoxTracker_update(trks[tracker_index], bbox)
         IN  <<filter_calls(to_observation_vector(get_last_observation(tracker)),
                            to_observation_vector(bbox), steps_between(tracker), 1)>>
                 \o filter_calls_of_updates([trks EXCEPT ![tracker_index] = updated],
                                            detections, Tail(pairs))

\* history: the live tracks after a call, each with its count of consecutive calls
\* that associated it, of calls it has lived through and of calls since the last
\* one that associated it
count_hits(trks, matched) ==
    [k \in 1..Len(trks) |->
        LET associated == \E m \in 1..Len(matched) : matched[m][2] = k
        IN  [trks[k] EXCEPT !.hits   = IF associated THEN @ + 1 ELSE 0,
                            !.lived  = @ + 1,
                            !.missed = IF associated THEN 0 ELSE @ + 1]]

NoLog ==
    [inst |-> 0, detections |-> <<>>, path |-> "none", before |-> <<>>, culled |-> {},
     high |-> <<>>, low |-> <<>>, m1 |-> <<>>, m2 |-> <<>>, m3 |-> <<>>,
     ud1 |-> <<>>, ut1 |-> <<>>, ut2 |-> <<>>, born |-> <<>>, stages |-> <<>>, steps |-> <<>>,
     filter |-> <<>>]

\* OCSort::update: every result the call can have, as [trackers, counter, log].
\* log is history: before is the live list after predict and retain, culled the
\* tracks retain dropped, born the detection index and id of every new track,
\* stages what the primary, BYTE and recovery associations were given and returned,
\* steps the steps_between of every filter re-update, filter the calls each
\* re-update made on the filter.
OCSort_update(self, trks, counter, detections) ==
    LET predicted == [k \in 1..Len(trks) |-> predict(trks[k])]
        Retained(tracker) == retain(tracker, self.max_age)
        live      == SelectSeq(predicted, Retained)
        culled    == {[id |-> predicted[k].id, time_since_update |-> predicted[k].time_since_update] :
                        k \in {k \in 1..Len(predicted) : ~Retained(predicted[k])}}
        High(k)   == is_high_score(detections[k], self.score_threshold)
        Low(k)    == ~High(k)
        indices   == [k \in 1..Len(detections) |-> k]
        high_score_indices == SelectSeq(indices, High)
        low_score_indices  == SelectSeq(indices, Low)
        log0      == [NoLog EXCEPT !.detections = detections, !.before = live, !.culled = culled,
                                   !.high = high_score_indices, !.low = low_score_indices]
    IN  IF live = <<>>
        THEN {[trackers |-> [k \in 1..Len(high_score_indices) |->
                                new_when_no_trackers(detections[high_score_indices[k]], self,
                                                     counter_after(counter, k - 1))],
               counter  |-> counter_after(counter, Len(high_score_indices)),
               log      |-> [log0 EXCEPT !.path = "no_trackers",
                                !.born = [k \in 1..Len(high_score_indices) |->
                                            [detection_index |-> high_score_indices[k],
                                             id |-> counter_after(counter, k - 1)]]]]}
        ELSE IF detections = <<>>
        THEN {[trackers |-> count_hits(live, <<>>), counter |-> counter,
               log |-> [log0 EXCEPT !.path = "no_detections"]]}
        ELSE {LET matched == c.primary.matched \o c.byte.matched \o c.ocr.matched
                  unmatched_detection_indices == c.ocr.unmatched_detections
                  updated == count_hits(update_matched(live, detections, matched), matched)
              IN  [trackers |-> updated \o
                                [k \in 1..Len(unmatched_detection_indices) |->
                                    new_for_unmatched(detections[unmatched_detection_indices[k]], self,
                                                      counter_after(counter, k - 1))],
                   counter  |-> counter_after(counter, Len(unmatched_detection_indices)),
                   log      |-> [log0 EXCEPT !.path = "cascade",
                                    !.m1 = c.primary.matched, !.m2 = c.byte.matched,
                                    !.m3 = c.ocr.matched,
                                    !.ud1 = c.primary.unmatched_detections,
                                    !.ut1 = c.primary.unmatched_trackers,
                                    !.ut2 = c.byte.unmatched_trackers,
                                    !.stages = <<c.primary, c.byte, c.ocr>>,
                                    !.steps = steps_of_updates(live, detections, matched),
                                    !.filter = filter_calls_of_updates(live, detections, matched),
                                    !.born = [k \in 1..Len(unmatched_detection_indices) |->
                                                [detection_index |-> unmatched_detection_indices[k],
                                                 id |-> counter_after(counter, k - 1)]]]] :
              c \in cascade(detections, high_score_indices, low_score_indices, live,
                            self.iou_threshold)}

-----------------------------------------------------------------------------
(* Inputs.  Every box of the model is 4 wide and 2 high and lies on the x axis;  *)
(* two of them that are d apart have IoU (4 - d) / (4 + d): 3/5, 1/3, 1/7, 0.   *)

BoxAt(x) == BBox_new(x, 0, x + 4, 2)

High(x, class) == Detection(BoxAt(x), class, 90)

Low(x, class) == Detection(BoxAt(x), class, 30)

\* the elements of seq at the positions in S, in the order of seq
RECURSIVE Pick(_, _)
Pick(seq, S) ==
    IF seq = <<>> THEN <<>>
    ELSE LET rest == Pick(Tail(seq), {k - 1 : k \in S \ {1}})
         IN  IF 1 \in S THEN <<Head(seq)>> \o rest ELSE rest

\* a frame is any selection of the detections of a pool, in the pool's order
FramesOf(pool) == {Pick(pool, S) : S \in SUBSET (1..Len(pool))}

DetPool == <<Low(2, 1), High(0, 1), High(2, 1), High(0, 2)>>

\* the second instance is fed from a smaller pool
Frames(i) == IF i = 1 THEN FramesOf(DetPool) ELSE FramesOf(<<High(0, 1)>>)

Configs ==
    {OCSort_new(0, 3000, 1, 50, 1), OCSort_new(1, 3000, 2, 50, 1), OCSort_new(2, 3000, 3, 50, 2)}

NoScenario == [kind |-> "none"]

\* no update call in progress
Idle == [active |-> FALSE, path |-> "none", detections |-> <<>>, births |-> <<>>]

-----------------------------------------------------------------------------
(* Scenarios: one tracker instance fed a fixed list of frames.  first_out and     *)
(* first_live record the ids the first call returned and the ids it left live.   *)

Scenario(kind, config, frames, class) ==
    [cfg |-> config, script |-> frames,
     scen |-> [kind |-> kind, class |-> class, first_out |-> <<>>, first_live |-> <<>>]]

\* S2, re-association after a gap: born at 0, matched at v, missed for g frames,
\* then detected where constant motion puts it.  test_update_reassociates_lost_object
\* is max_age = 5, delta_t = 3, class = 1, v = 2 (half a box width), g = 1.
ScenariosS2 ==
    UNION {{Scenario("S2", OCSort_new(max_age, 3000, delta_t, 50, 1),
                     <<<<High(0, class)>>, <<High(v, class)>>>> \o [k \in 1..g |-> <<>>]
                         \o <<<<High(v * (g + 2), class)>>>>,
                     class) :
               delta_t \in {1, 3}, class \in {1, 3}, v \in {1, 2}, g \in 1..max_age} :
           max_age \in {1, 2, 5}}

\* the boxes of test_update_keeps_track_of_objects
MotorcycleBoxes ==
    <<BBox_new(187, 324, 303, 422), BBox_new(183, 321, 302, 426), BBox_new(180, 324, 303, 429),
      BBox_new(179, 324, 303, 433), BBox_new(168, 327, 305, 438)>>

PersonBoxes ==
    <<BBox_new(213, 280, 266, 402), BBox_new(211, 278, 265, 403), BBox_new(211, 278, 269, 406),
      BBox_new(210, 276, 268, 405), BBox_new(206, 277, 269, 408)>>

\* S3, two objects of classes 3 and 0 detected in each of 5 frames at overlapping
\* positions: the boxes of the test, and boxes of the model one apart (IoU 3/5)
ScenariosS3 ==
    {Scenario("S3", OCSort_new(5, 3000, 3, 50, 1),
              [k \in 1..5 |-> <<Detection(MotorcycleBoxes[k], 3, 90),
                                Detection(PersonBoxes[k], 0, 80)>>], 3)}
    \cup
    {Scenario("S3", OCSort_new(5, 3000, delta_t, 50, 1),
              [k \in 1..5 |-> <<High((k - 1) * v, 3), High(1 + (k - 1) * v, 0)>>], 3) :
        delta_t \in {1, 2, 3}, v \in {0, 1}}

\* S4, BYTE rescue: a high-score detection, then only a low-score detection of the
\* same class at distance d <= 2 (IoU 1, 3/5 or 1/3, above the threshold 0.3)
ScenariosS4 ==
    {Scenario("S4", OCSort_new(max_age, 3000, delta_t, 50, 1),
              <<<<High(0, class)>>, <<Low(d, class)>>>>, class) :
        max_age \in {1, 5}, delta_t \in {1, 2, 3}, class \in {1, 2, 3}, d \in {0, 1, 2}}

\* S5, class mismatch: a high-score detection of class c1, then one of class c2 in
\* the same box; the scenario's class is c2
ScenariosS5 ==
    {Scenario("S5", OCSort_new(max_age, 3000, delta_t, 50, min_hit_streak),
              <<<<High(0, c[1])>>, <<High(0, c[2])>>>>, c[2]) :
        max_age \in {0, 1, 5}, delta_t \in {1, 2, 3}, min_hit_streak \in {1, 2},
        c \in {c \in {1, 2, 3} \X {1, 2, 3} : c[1] # c[2]}}

\* Index lists that are not 0..n, tracker side: a track of class c at 0, then two
\* tracks of another class born far away and at 2, then two class-c detections at
\* 0 and 2 and a low-score detection of the other class at 2.  delta_t = c.
ScenariosTrackerIndices ==
    {Scenario("tracker_indices", OCSort_new(max_age, 3000, c[1], 50, min_hit_streak),
              <<<<High(0, c[1])>>,
                <<High(far, c[2]), High(2, c[2])>>,
                <<High(0, c[1]), High(2, c[1]), Low(2, c[2])>>>>, c[1]) :
        max_age \in {2, 5}, far \in {8, 9, 10}, min_hit_streak \in {1, 2},
        c \in {c \in {1, 2, 3} \X {1, 2, 3} : c[1] # c[2]}}

\* Index lists that are not 0..n, detection side: a track at 0, then a low-score
\* detection followed by two high-score ones at 0 and at d, all of one class.
\* delta_t = class.
ScenariosDetectionIndices ==
    {Scenario("detection_indices", OCSort_new(max_age, 3000, class, 50, 1),
              <<<<High(0, class)>>,
                <<Low(x, class), High(0, class), High(d, class)>>>>, class) :
        max_age \in {1, 5}, class \in {1, 2, 3}, x \in {0, 8}, d \in {1, 2, 8}}

\* Recovery: a track born at 0 and matched at 2, so that its predicted box is at
\* 4, then a detection at d, which overlaps the last observation but not the
\* predicted box enough.  delta_t = class.
ScenariosRecovery ==
    {Scenario("recovery", OCSort_new(max_age, 3000, class, 50, min_hit_streak),
              <<<<High(0, class)>>, <<High(2, class)>>, <<High(d, class)>>>>, class) :
        max_age \in {1, 5}, class \in {1, 2, 3}, min_hit_streak \in {1, 2}, d \in {0, 1}}

Scenarios ==
    ScenariosS2 \cup ScenariosS3 \cup ScenariosS4 \cup ScenariosS5
        \cup ScenariosTrackerIndices \cup ScenariosDetectionIndices \cup ScenariosRecovery

-----------------------------------------------------------------------------
(* The state machine *)

IdsOf(seq) == {seq[k].id : k \in 1..Len(seq)}

InitCommon ==
    /\ trackers = [i \in Instances |-> <<>>]
    /\ ID_COUNTER = 0
    /\ out = [i \in Instances |-> <<>>]
    /\ last = NoLog
    /\ created = <<>>
    /\ dead = {}
    /\ calls = 0
    /\ pending = [i \in Instances |-> Idle]

Init ==
    /\ InitCommon
    /\ cfg \in [Instances -> Configs]
    /\ cfg[2] = OCSort_new(1, 3000, 2, 50, 1)
    /\ script = <<>>
    /\ scen = NoScenario

\* one call of OCSort::update on instance i
Update(i, detections) ==
    \E o \in OCSort_update(cfg[i], trackers[i], ID_COUNTER, detections) :
        /\ trackers' = [trackers EXCEPT ![i] = o.trackers]
        /\ ID_COUNTER' = o.counter
        /\ out' = [out EXCEPT ![i] = get_trackers(o.trackers, cfg[i].min_hit_streak)]
        /\ last' = [o.log EXCEPT !.inst = i]
        /\ created' = created \o [k \in 1..Len(o.log.born) |-> o.log.born[k].id]
        /\ dead' = dead \cup {c.id : c \in o.log.culled}
        /\ calls' = calls + 1
        /\ UNCHANGED <<cfg, pending>>

\* update with any frame, on any instance
FreeUpdate ==
    /\ calls < MaxFrames
    /\ \E i \in Instances : \E detections \in Frames(i) : Update(i, detections)
    /\ UNCHANGED <<script, scen>>

\* one call of OCSort::get_trackers on instance i
GetTrackers ==
    /\ \E i \in Instances :
          out' = [out EXCEPT ![i] = get_trackers(trackers[i], cfg[i].min_hit_streak)]
    /\ UNCHANGED <<trackers, cfg, ID_COUNTER, last, created, dead, calls, script, scen, pending>>

Next == FreeUpdate \/ GetTrackers

Spec == Init /\ [][Next]_vars

InitScenarios ==
    /\ InitCommon
    /\ \E scenario \in Scenarios :
          /\ cfg = [i \in Instances |-> scenario.cfg]
          /\ script = scenario.script
          /\ scen = scenario.scen

\* update of instance 1 with the next frame of the scenario
ScriptedUpdate ==
    /\ script # <<>>
    /\ Update(1, Head(script))
    /\ script' = Tail(script)
    /\ scen' = IF calls = 0
               THEN [scen EXCEPT !.first_out = [k \in 1..Len(out'[1]) |-> out'[1][k].id],
                                 !.first_live = [k \in 1..Len(trackers'[1]) |-> trackers'[1][k].id]]
               ELSE scen

NextScenarios == ScriptedUpdate \/ GetTrackers

SpecScenarios == InitScenarios /\ [][NextScenarios]_vars

-----------------------------------------------------------------------------
(* Queries: update calls with get_trackers calls between them.  scen records the  *)
(* get_trackers calls made since the last update call: on which instance the last *)
(* one was, what the call before it on that instance had returned, and how many   *)
(* there were (counted up to MaxQueries).                                         *)

MaxQueryFrames == 2

MaxQueries == 2

QueriedUpdate ==
    /\ calls < MaxQueryFrames
    /\ \E i \in Instances : \E detections \in Frames(i) : Update(i, detections)
    /\ scen' = NoScenario
    /\ UNCHANGED script

\* a get_trackers call that reads the track list after advancing it
QueryTrackersPredicting ==
    /\ \E i \in Instances :
          /\ trackers' = [trackers EXCEPT ![i] = [k \in 1..Len(@) |-> predict(@[k])]]
          /\ out' = [out EXCEPT ![i] = get_trackers(trackers'[i], cfg[i].min_hit_streak)]
          /\ scen' = [kind |-> "get_trackers", inst |-> i, previous |-> out[i],
                      n |-> IF scen.kind = "get_trackers" THEN Min(scen.n + 1, MaxQueries) ELSE 1]
    /\ UNCHANGED <<cfg, ID_COUNTER, last, created, dead, calls, script, pending>>

\* one call of OCSort::get_trackers on instance i (&self: nothing is written)
QueryTrackers ==
    /\ \E i \in Instances :
          /\ out' = [out EXCEPT ![i] = get_trackers(trackers[i], cfg[i].min_hit_streak)]
          /\ scen' = [kind |-> "get_trackers", inst |-> i, previous |-> out[i],
                      n |-> IF scen.kind = "get_trackers" THEN Min(scen.n + 1, MaxQueries) ELSE 1]
    /\ UNCHANGED <<trackers, cfg, ID_COUNTER, last, created, dead, calls, script, pending>>

NextQueries == QueriedUpdate \/ QueryTrackers

SpecQueries == Init /\ [][NextQueries]_vars

-----------------------------------------------------------------------------
(* Concurrency.  Each tracker instance is owned by one thread (update takes &mut  *)
(* self) and the threads share only the static ID_COUNTER.  An update call is     *)
(* split at its accesses to the counter: everything up to the first               *)
(* KalmanBoxTracker::new, then one step for each new (its fetch_add is one atomic *)
(* read-modify-write), then the return.  The steps of different instances         *)
(* interleave in any order.                                                       *)

MaxConcurrentCalls == 3

ConcurrentPool == <<High(0, 1), High(8, 1)>>

InitConcurrent ==
    /\ InitCommon
    /\ cfg \in [Instances -> Configs]
    /\ script = <<>>
    /\ scen = NoScenario

\* update up to its first KalmanBoxTracker::new: predict, retain, the association
\* cascade and the updates of the matched tracks
BeginUpdate ==
    /\ calls < MaxConcurrentCalls
    /\ \E i \in Instances : \E detections \in FramesOf(ConcurrentPool) :
          /\ ~pending[i].active
          /\ \E o \in OCSort_update(cfg[i], trackers[i], ID_COUNTER, detections) :
                /\ trackers' = [trackers EXCEPT ![i] =
                                    SubSeq(o.trackers, 1, Len(o.trackers) - Len(o.log.born))]
                /\ pending' = [pending EXCEPT ![i] =
                                   [active |-> TRUE, path |-> o.log.path, detections |-> detections,
                                    births |-> [k \in 1..Len(o.log.born) |->
                                                   o.log.born[k].detection_index]]]
                /\ last' = [o.log EXCEPT !.inst = i, !.born = <<>>]
                /\ dead' = dead \cup {c.id : c \in o.log.culled}
                /\ calls' = calls + 1
    /\ UNCHANGED <<cfg, ID_COUNTER, out, created, script, scen>>

\* one self.trackers.push(KalmanBoxTracker::new(..)) of the call in progress
CreateTrack ==
    /\ \E i \in Instances :
          /\ pending[i].active
          /\ pending[i].births # <<>>
          /\ LET detection == pending[i].detections[Head(pending[i].births)]
                 tracker   == IF pending[i].path = "no_trackers"
                              THEN new_when_no_trackers(detection, cfg[i], ID_COUNTER)
                              ELSE new_for_unmatched(detection, cfg[i], ID_COUNTER)
             IN  /\ trackers' = [trackers EXCEPT ![i] = Append(@, tracker)]
                 /\ created' = Append(created, tracker.id)
          /\ ID_COUNTER' = fetch_add(ID_COUNTER)
          /\ pending' = [pending EXCEPT ![i].births = Tail(@)]
    /\ UNCHANGED <<cfg, out, last, dead, calls, script, scen>>

\* the closing self.get_trackers() of the call in progress
ReturnUpdate ==
    /\ \E i \in Instances :
          /\ pending[i].active
          /\ pending[i].births = <<>>
          /\ out' = [out EXCEPT ![i] = get_trackers(trackers[i], cfg[i].min_hit_streak)]
          /\ pending' = [pending EXCEPT ![i] = Idle]
    /\ UNCHANGED <<trackers, cfg, ID_COUNTER, last, created, dead, calls, script, scen>>

NextConcurrent == BeginUpdate \/ CreateTrack \/ ReturnUpdate

SpecConcurrent == InitConcurrent /\ [][NextConcurrent]_vars

-----------------------------------------------------------------------------
(* Observation rings: get_observation_dt_time_steps_away applied to a track with  *)
(* any ring update can leave behind.  The time_steps are non-decreasing and at    *)
(* most the age; a time_step occurs twice at most (a track updated twice in one   *)
(* call), the birth record once; a ring shorter than delta_t has lost no record   *)
(* and starts with the birth record; the ring holds max(delta_t, 1) records at    *)
(* most.  The record at position k holds the box at k, so that the records are    *)
(* told apart.  scen records the box the call returned.                           *)

MaxRingAge == 4

MaxRingDeltaT == 3

RingTimeSteps ==
    UNION {{ts \in [1..n -> 0..MaxRingAge] :
                /\ \A k, l \in 1..n : k < l => ts[k] <= ts[l]
                /\ \A k, l, m \in 1..n : (k < l /\ l < m) => ts[k] < ts[m]
                /\ \A k \in 2..n : ts[k] > 0} :
           n \in 1..MaxRingDeltaT}

TrackWithRing(ts, age, delta_t) ==
    [KalmanBoxTracker_new(BoxAt(Len(ts)), 1, delta_t, 0)
        EXCEPT !.prev_observations = [k \in 1..Len(ts) |-> [time_step |-> ts[k], bbox |-> BoxAt(k)]],
               !.age = age,
               !.time_since_update = age - ts[Len(ts)],
               !.lived = age,
               !.missed = age - ts[Len(ts)]]

TracksWithRing ==
    {TrackWithRing(ts, age, delta_t) :
        ts \in RingTimeSteps, age \in 0..MaxRingAge, delta_t \in 0..MaxRingDeltaT}

InitRing ==
    /\ InitCommon
    /\ cfg = [i \in Instances |-> OCSort_new(MaxRingAge, 3000, MaxRingDeltaT, 50, 1)]
    /\ script = <<>>
    /\ scen = NoScenario

\* a track with some ring is live on instance 1
RingTrack ==
    /\ trackers[1] = <<>>
    /\ \E tracker \in TracksWithRing :
          LET ring == tracker.prev_observations
          IN  /\ ring[Len(ring)].time_step <= tracker.age
              /\ Len(ring) <= Max(tracker.delta_t, 1)
              /\ Len(ring) < tracker.delta_t => ring[1].time_step = 0
              /\ trackers' = [trackers EXCEPT ![1] = <<tracker>>]
    /\ UNCHANGED <<cfg, ID_COUNTER, out, last, created, dead, calls, script, scen, pending>>

\* one call of get_observation_dt_time_steps_away on the track
ObservationDtTimeStepsAway ==
    /\ trackers[1] # <<>>
    /\ scen = NoScenario
    /\ scen' = [kind |-> "observation_dt",
                bbox |-> get_observation_dt_time_steps_away(trackers[1][1])]
    /\ UNCHANGED <<trackers, cfg, ID_COUNTER, out, last, created, dead, calls, script, pending>>

NextRing == RingTrack \/ ObservationDtTimeStepsAway

SpecRing == InitRing /\ [][NextRing]_vars

-----------------------------------------------------------------------------
(* Costs: calc_iou_cost_matrix and the gate of calculate_matching applied to one  *)
(* detection and one track of the same class, for any two boxes with corners in   *)
(* 0..MaxCorner on the x axis and three thresholds (0.3, 0.1429, 0.6667).  The    *)
(* gate is reached through observation_centric_recovery, which compares the       *)
(* detection with the box the track was created from.  scen holds the input and,  *)
(* after the call, the matrix entry and whether the pair was matched.             *)

MaxCorner == 4

CostBoxes == {BBox_new(x_1, 0, x_2, 2) : x_1 \in 0..MaxCorner, x_2 \in 0..MaxCorner}

CostThresholds == {3000, 1429, 6667}

InitCost ==
    /\ InitCommon
    /\ cfg = [i \in Instances |-> OCSort_new(1, 3000, 1, 50, 1)]
    /\ script = <<>>
    /\ \E bbox_1 \in CostBoxes : \E bbox_2 \in CostBoxes : \E iou_threshold \in CostThresholds :
          scen = [kind |-> "cost_input", bbox_1 |-> bbox_1, bbox_2 |-> bbox_2,
                  iou_threshold |-> iou_threshold]

\* calc_iou_cost_matrix on the two boxes, and the recovery association of a
\* detection in bbox_1 with a track created from bbox_2
CalcIouCost ==
    /\ scen.kind = "cost_input"
    /\ \E r \in observation_centric_recovery(<<Detection(scen.bbox_1, 1, 90)>>, <<1>>,
                                             <<KalmanBoxTracker_new(scen.bbox_2, 1, 1, 0)>>, <<1>>,
                                             scen.iou_threshold) :
          scen' = [kind |-> "cost", bbox_1 |-> scen.bbox_1, bbox_2 |-> scen.bbox_2,
                   iou_threshold |-> scen.iou_threshold,
                   cost |-> calc_iou_cost_matrix(<<scen.bbox_1>>, <<scen.bbox_2>>).at[<<1, 1>>],
                   matched |-> r.matched # <<>>]
    /\ UNCHANGED <<trackers, cfg, ID_COUNTER, out, last, created, dead, calls, script, pending>>

NextCost == CalcIouCost

SpecCost == InitCost /\ [][NextCost]_vars

-----------------------------------------------------------------------------
(* Claims *)

LiveIds(i) == IdsOf(trackers[i])

\* the live track of instance i that carries id
TrackerOf(i, id) == CHOOSE k \in 1..Len(trackers[i]) : trackers[i][k].id = id

\* C1: every track returned by update or get_trackers has the class of the
\* detection that most recently created or updated it, whichever branch of update
\* created it.
C1_ClassOfLastDetection ==
    \A i \in Instances : \A k \in 1..Len(out[i]) :
        /\ out[i][k].id \in LiveIds(i)
        /\ out[i][k].class = trackers[i][TrackerOf(i, out[i][k].id)].det_class

\* C2: identity survives a gap: a track born and matched, then missed for g frames,
\* 1 <= g <= max_age, and then offered one same-class high-score detection at its
\* extrapolated position is re-associated: that call returns exactly one track,
\* with the id of the track the first frame returned.
C2_IdentitySurvivesGap ==
    (scen.kind = "S2" /\ script = <<>>) =>
        /\ Len(out[1]) = 1
        /\ <<out[1][1].id>> = scen.first_out

\* C3: two objects of classes 3 and 0, each detected with a high score in every
\* one of 5 frames at overlapping positions: every call returns exactly 2 tracks
\* and the set of their ids is that of the first frame.
C3_TwoStableIds ==
    (scen.kind = "S3" /\ calls >= 1) =>
        /\ Len(out[1]) = 2
        /\ IdsOf(out[1]) = Range(scen.first_out)

\* C4: BYTE rescue, for any class: after a frame with one high-score detection and
\* a frame with only a low-score detection of the same class whose IoU with the
\* track's box is above iou_threshold, the track is live with time_since_update =
\* 0 and it is the only live track.
C4_ByteRescue ==
    (scen.kind = "S4" /\ script = <<>>) =>
        /\ Len(trackers[1]) = 1
        /\ trackers[1][1].time_since_update = 0
        /\ <<trackers[1][1].id>> = scen.first_live

\* C5: class mismatch blocks association: after a high-score detection of class c1
\* and then one of class c2 # c1 in the same box, the first track has
\* time_since_update = 1 and there is a new track of class c2.
C5_ClassMismatchBlocks ==
    (scen.kind = "S5" /\ script = <<>>) =>
        /\ \E k \in 1..Len(trackers[1]) :
              /\ <<trackers[1][k].id>> = scen.first_live
              /\ trackers[1][k].time_since_update = 1
        /\ \E k \in 1..Len(trackers[1]) :
              /\ trackers[1][k].id \notin Range(scen.first_live)
              /\ trackers[1][k].class = scen.class

\* no live track is older than max_age, the id of a removed track is never live or
\* returned again, and a returned track was associated in the call that returned it
C6_NoStaleTrackLive ==
    \A i \in Instances :
        /\ \A k \in 1..Len(trackers[i]) : trackers[i][k].time_since_update <= cfg[i].max_age
        /\ LiveIds(i) \cap dead = {}
        /\ \A k \in 1..Len(out[i]) :
              /\ out[i][k].id \in LiveIds(i)
              /\ trackers[i][TrackerOf(i, out[i][k].id)].time_since_update = 0

\* an update call removes exactly the tracks whose time_since_update, after predict,
\* exceeds max_age
C6_RemovedWhenExceeding ==
    \A i \in Instances :
        (calls' = calls + 1 /\ last'.inst = i) =>
            \A k \in 1..Len(trackers[i]) :
                (trackers[i][k].time_since_update + 1 > cfg[i].max_age)
                    <=> (trackers[i][k].id \notin IdsOf(trackers'[i]))

\* C6: death by aging: a track is removed from the live list in the call in which
\* its time_since_update, after predict, first exceeds max_age, and in no other
\* call; its id is never live or returned again; a track that is never matched
\* again is returned by the call that created it only.
C6_DeathByAging == [](C6_NoStaleTrackLive) /\ [][C6_RemovedWhenExceeding]_vars

\* C6's case: with max_age >= 1, a track that was live before the last call was
\* removed in it, after max_age calls without an association
C6_Witness ==
    /\ last.inst # 0
    /\ cfg[last.inst].max_age >= 1
    /\ \E c \in last.culled : c.time_since_update = cfg[last.inst].max_age + 1

\* C7: whatever max_age is (0 included), a track born or matched in one call has
\* time_since_update = 1 at the culling step of the next call and is not dropped
\* there.
C7_UpdatedTrackSurvivesCulling ==
    \A c \in last.culled : c.time_since_update # 1

AllMatched == last.m1 \o last.m2 \o last.m3

\* C8: over the primary, BYTE and recovery match lists of one update call no
\* detection index and no tracker index occurs in two pairs, so no track is
\* updated twice in one call.
C8_MatchedAtMostOnce ==
    \A a, b \in 1..Len(AllMatched) :
        a # b => /\ AllMatched[a][1] # AllMatched[b][1]
                 /\ AllMatched[a][2] # AllMatched[b][2]

\* C9: the detections that create tracks in an update call are exactly the
\* high-score detections matched in neither the primary nor the recovery stage, one
\* track for each.
C9_BirthsAreUnmatchedHighScore ==
    LET matched  == {last.m1[k][1] : k \in 1..Len(last.m1)}
                    \cup {last.m3[k][1] : k \in 1..Len(last.m3)}
        expected == {last.high[k] : k \in 1..Len(last.high)} \ matched
        born     == {last.born[k].detection_index : k \in 1..Len(last.born)}
    IN  last.path \in {"no_trackers", "cascade"} =>
            /\ born = expected
            /\ Cardinality(born) = Len(last.born)

AllLive == UNION {{<<i, k>> : k \in 1..Len(trackers[i])} : i \in Instances}

\* C10: ids grow strictly in creation order, over all tracker instances; every live
\* track carries an id that was handed out, no two live tracks share one, and the id
\* of a removed track is carried by no live track.
C10_IdsIncrease ==
    /\ \A k, l \in 1..Len(created) : k < l => created[k] < created[l]
    /\ \A p \in AllLive : trackers[p[1]][p[2]].id \in Range(created)
    /\ \A p, q \in AllLive : p # q => trackers[p[1]][p[2]].id # trackers[q[1]][q[2]].id
    /\ \A p \in AllLive : trackers[p[1]][p[2]].id \notin dead

\* C10's case: both instances hold tracks, and a track was created after another
\* was removed
C10_Witness ==
    /\ \A i \in Instances : trackers[i] # <<>>
    /\ Len(created) >= 3
    /\ \E d \in dead : \E p \in AllLive : trackers[p[1]][p[2]].id > d

\* everything an instance owns
InstanceState(i) == <<trackers[i], out[i], cfg[i], pending[i]>>

\* no id was handed out twice, and no two live tracks, of one instance or of two,
\* carry the same id
C11_NoTwoTracksShareAnId ==
    /\ \A k, l \in 1..Len(created) : k # l => created[k] # created[l]
    /\ \A p, q \in AllLive : p # q => trackers[p[1]][p[2]].id # trackers[q[1]][q[2]].id
    /\ \A p \in AllLive : trackers[p[1]][p[2]].id \in Range(created)

\* a step changes the state of one instance at most
C11_OnlyCounterShared ==
    \A i, j \in Instances :
        i # j => (InstanceState(i)' = InstanceState(i) \/ InstanceState(j)' = InstanceState(j))

\* C11: when tracker instances run update concurrently, in any interleaving of
\* their steps, no two tracks ever receive the same id, and a step of an update on
\* one instance changes nothing of another instance: the id counter is the only
\* state they share.
C11_ConcurrentUpdates == [](C11_NoTwoTracksShareAnId) /\ [][C11_OnlyCounterShared]_vars

\* C11's case: both instances are inside update, and the ids one of them got
\* enclose an id the other got
C11_Witness ==
    /\ \A i \in Instances : pending[i].active
    /\ \E i, j \in Instances : \E a, c \in LiveIds(i) : \E b \in LiveIds(j) :
          i # j /\ a < b /\ b < c

\* the positions, in the live list, of the tracks the last update call matched in
\* some stage
MatchedTrackers == {AllMatched[k][2] : k \in 1..Len(AllMatched)}

\* C12: after an update call every live track has time_since_update = 0 if and only
\* if the call matched it in some stage or created it; every other live track has
\* time_since_update >= 1, on the early-return paths too.
C12_ZeroIffMatched ==
    last.inst # 0 =>
        \A k \in 1..Len(trackers[last.inst]) :
            LET tracker == trackers[last.inst][k]
                matched == k \in MatchedTrackers \/ k > Len(last.before)
            IN  /\ (tracker.time_since_update = 0) <=> matched
                /\ ~matched => tracker.time_since_update >= 1

\* C12's case: a call through the cascade that matched a track, left another
\* unmatched and created a third
C12_Witness ==
    /\ last.path = "cascade"
    /\ MatchedTrackers # {}
    /\ (1..Len(last.before)) \ MatchedTrackers # {}
    /\ last.born # <<>>

\* C13: every track returned by update or get_trackers was associated in at least
\* min_hit_streak consecutive update calls, the last call among them, its creation
\* counting as the first association.
C13_EmittedAfterMinHitStreak ==
    \A i \in Instances : \A k \in 1..Len(out[i]) :
        /\ out[i][k].id \in LiveIds(i)
        /\ trackers[i][TrackerOf(i, out[i][k].id)].hits >= cfg[i].min_hit_streak

\* C14: the list update returns, on every return path, holds exactly the snapshots
\* of the live tracks with time_since_update < 1 and hit_streak >= min_hit_streak,
\* in the order of the live list, which is the order of creation of the tracks
\* that are still live.
C14_OutputIsFilteredLiveList ==
    \A i \in Instances :
        /\ \A k, l \in 1..Len(trackers[i]) : k < l => trackers[i][k].id < trackers[i][l].id
        /\ \A k, l \in 1..Len(out[i]) : k < l => out[i][k].id < out[i][l].id
        /\ IdsOf(out[i]) = {trackers[i][k].id : k \in {k \in 1..Len(trackers[i]) :
                                /\ trackers[i][k].time_since_update < 1
                                /\ trackers[i][k].hit_streak >= cfg[i].min_hit_streak}}
        /\ \A k \in 1..Len(out[i]) :
              LET tracker == trackers[i][TrackerOf(i, out[i][k].id)]
              IN  out[i][k] = [id |-> tracker.id, class |-> tracker.class,
                               bbox |-> from_state_vector(tracker.kalman_filter)]

\* C14's case: the last update call returned two tracks or more and withheld a
\* live track
C14_Witness ==
    /\ last.inst # 0
    /\ Len(out[last.inst]) >= 2
    /\ Len(trackers[last.inst]) > Len(out[last.inst])

\* a get_trackers call returns what the call before it on that instance returned
C15_SameListAsBefore ==
    scen.kind = "get_trackers" => out[scen.inst] = scen.previous

\* a step that is not an update call changes no tracker state
C15_NothingWritten ==
    calls' = calls =>
        /\ trackers' = trackers
        /\ ID_COUNTER' = ID_COUNTER
        /\ cfg' = cfg
        /\ out' = out

\* C15: get_trackers leaves the tracker state unchanged (the live list with every
\* field of every track, and the id counter); called any number of times between
\* two update calls it returns the list the preceding update returned, and the next
\* update starts from the state the preceding one left.
C15_GetTrackersIsPure == [](C15_SameListAsBefore) /\ [][C15_NothingWritten]_vars

\* C15's case: get_trackers was called twice or more since the last update call, on
\* an instance that returns a track and withholds another
C15_Witness ==
    /\ scen.kind = "get_trackers"
    /\ scen.n >= 2
    /\ out[scen.inst] # <<>>
    /\ Len(trackers[scen.inst]) > Len(out[scen.inst])

NoDuplicates(seq) == \A k, l \in 1..Len(seq) : k # l => seq[k] # seq[l]

\* the indices a returned triple names on the detection side and on the tracker
\* side: those of the matched pairs, then the unmatched ones
DetectionsNamed(stage) ==
    [k \in 1..Len(stage.matched) |-> stage.matched[k][1]] \o stage.unmatched_detections

TrackersNamed(stage) ==
    [k \in 1..Len(stage.matched) |-> stage.matched[k][2]] \o stage.unmatched_trackers

\* C16: each of the three association functions, given duplicate-free index lists
\* (of the form 0..n or not, transposed cost matrix or not), returns a triple that
\* partitions them: matched and unmatched_detections name every element of
\* detection_indices once and nothing else, matched and unmatched_trackers every
\* element of tracker_indices once and nothing else.
C16_TriplePartitionsInputs ==
    \A k \in 1..Len(last.stages) :
        LET stage == last.stages[k]
        IN  (NoDuplicates(stage.detection_indices) /\ NoDuplicates(stage.tracker_indices)) =>
                /\ NoDuplicates(DetectionsNamed(stage))
                /\ Range(DetectionsNamed(stage)) = Range(stage.detection_indices)
                /\ NoDuplicates(TrackersNamed(stage))
                /\ Range(TrackersNamed(stage)) = Range(stage.tracker_indices)

\* the tracker positions, and the detection indices, of a match list
TrackersIn(matched) == {matched[k][2] : k \in 1..Len(matched)}

DetectionsIn(matched) == {matched[k][1] : k \in 1..Len(matched)}

\* C17: cascade staging: the BYTE stage is offered exactly the live tracks the
\* primary stage did not match, the recovery stage exactly the live tracks matched
\* in neither, and exactly the high-score detections the primary stage did not
\* match; each once.
C17_CascadeStaging ==
    last.path = "cascade" =>
        LET live  == 1..Len(last.before)
            byte  == last.stages[2]
            ocr   == last.stages[3]
        IN  /\ NoDuplicates(byte.tracker_indices)
            /\ Range(byte.tracker_indices) = live \ TrackersIn(last.m1)
            /\ NoDuplicates(ocr.tracker_indices)
            /\ Range(ocr.tracker_indices) = live \ (TrackersIn(last.m1) \cup TrackersIn(last.m2))
            /\ NoDuplicates(ocr.detection_indices)
            /\ Range(ocr.detection_indices) = Range(last.high) \ DetectionsIn(last.m1)

\* the box of a track that an association mode compares detections with: the
\* predicted box in the primary (1) and BYTE (2) modes, the last observed box in
\* the recovery mode (3)
GatingBox(mode, tracker) ==
    IF mode = 3 THEN get_last_observation(tracker) ELSE get_bbox(tracker)

C19_EmptyInputShortcut ==
    \A mode \in 1..Len(last.stages) :
        LET stage == last.stages[mode]
        IN  (stage.detection_indices = <<>> \/ stage.tracker_indices = <<>>) =>
                /\ ~stage.solver
                /\ stage.matched = <<>>
                /\ stage.unmatched_detections = stage.detection_indices
                /\ stage.unmatched_trackers = stage.tracker_indices

\* every index of seq is a position of a list of n elements
InRange(seq, n) == \A k \in 1..Len(seq) : seq[k] \in 1..n

\* C20: update never panics: every index into the tracker list, the detection
\* list, the index lists and the cost matrices is in range, the solver is called
\* with rows <= columns only, and age - time_step of the last ring entry never
\* underflows in the filter re-update.
C20_NoPanic ==
    LET ndetections == Len(last.detections)
        ntrackers   == Len(last.before)
    IN  /\ \A mode \in 1..Len(last.stages) :
              LET stage == last.stages[mode]
              IN  /\ InRange(stage.detection_indices, ndetections)
                  /\ InRange(stage.tracker_indices, ntrackers)
                  /\ InRange(DetectionsNamed(stage), ndetections)
                  /\ InRange(TrackersNamed(stage), ntrackers)
                  /\ stage.solver => stage.rows <= stage.columns
                  \* add_speed_cost_matrix writes one column for each live track
                  /\ mode = 1 => ntrackers <= Len(stage.tracker_indices)
        /\ \A k \in 1..Len(last.born) : last.born[k].detection_index \in 1..ndetections
        /\ \A k \in 1..Len(last.steps) : last.steps[k] >= 0
        /\ \A p \in AllLive : trackers[p[1]][p[2]].prev_observations # <<>>

\* C20's case: a call that ran the solver and re-updated the filter of a track
\* whose last ring entry is two steps old or more
C20_Witness ==
    /\ last.path = "cascade"
    /\ \E mode \in 1..3 : last.stages[mode].solver /\ last.stages[mode].matched # <<>>
    /\ \E k \in 1..Len(last.steps) : last.steps[k] >= 2


\* the number of pairs of a match list that name the track at position k
RECURSIVE UpdatesOf(_, _)
UpdatesOf(matched, k) ==
    IF matched = <<>> THEN 0
    ELSE (IF Head(matched)[2] = k THEN 1 ELSE 0) + UpdatesOf(Tail(matched), k)

\* after every update call the counters of every live track agree with the history
\* of the calls
C21_CountersFollowCalls ==
    \A i \in Instances : \A k \in 1..Len(trackers[i]) :
        LET tracker == trackers[i][k]
        IN  /\ tracker.age = tracker.lived
            /\ tracker.time_since_update = tracker.missed
            /\ 0 <= tracker.time_since_update
            /\ tracker.time_since_update <= Min(tracker.age, cfg[i].max_age)

\* an update call takes the counters of every track it keeps from their values
\* before the call: predict adds 1 to age and to time_since_update and resets
\* hit_streak when time_since_update was positive, every KalmanBoxTracker::update
\* of the track then sets time_since_update to 0 and adds 1 to hit_streak
C21_PredictThenUpdate ==
    \A i \in Instances :
        (calls' = calls + 1 /\ last'.inst = i) =>
            \A k \in 1..Len(last'.before) :
                LET before  == trackers[i][TrackerOf(i, last'.before[k].id)]
                    after   == trackers'[i][k]
                    updates == UpdatesOf(last'.m1 \o last'.m2 \o last'.m3, k)
                IN  /\ after.id = before.id
                    /\ after.age = before.age + 1
                    /\ after.hit_streak =
                           (IF before.time_since_update > 0 THEN 0 ELSE before.hit_streak) + updates
                    /\ after.time_since_update =
                           IF updates > 0 THEN 0 ELSE before.time_since_update + 1

\* C21: counter invariant: after every update call every live track has age = the
\* number of update calls completed since the call that created it,
\* time_since_update = the number of update calls since its most recent association
\* (or its birth), and 0 <= time_since_update <= min(age, max_age); predict resets
\* hit_streak to 0 exactly when time_since_update was > 0 before the increment, and
\* a track update sets time_since_update to 0 and adds 1 to hit_streak.
C21_CounterInvariant == [](C21_CountersFollowCalls) /\ [][C21_PredictThenUpdate]_vars

\* C21's case: a track that had missed two calls or more was associated again, its
\* hit_streak reset by predict and raised by the update
C21_Witness ==
    /\ last.path = "cascade"
    /\ \E k \in MatchedTrackers :
          /\ last.before[k].time_since_update >= 3
          /\ last.before[k].hit_streak = 0
          /\ trackers[last.inst][k].hit_streak = 1
          /\ trackers[last.inst][k].time_since_update = 0
          /\ trackers[last.inst][k].age >= 4


\* the measurement updates, and the predicts, among the filter calls of one
\* KalmanBoxTracker::update
MeasurementUpdates(ops) == {n \in 1..Len(ops) : ops[n].op = "update"}

Predicts(ops) == {n \in 1..Len(ops) : ops[n].op = "predict"}

\* the measurement a box gives, its ratio in lowest terms as the filter state keeps it
MeasurementOf(bbox) ==
    LET z == to_observation_vector(bbox)
        r == Fraction(z.rn, z.rd)
    IN  [z EXCEPT !.rn = r.rn, !.rd = r.rd]

\* C22: re-update ordering: every KalmanBoxTracker::update reached from
\* OCSort::update has k = age - (last ring entry's time_step) >= 1 and performs
\* exactly k filter measurement updates interleaved with exactly k - 1 filter
\* predicts, never ending with a predict, and the last measurement fed to the
\* filter is the new observation itself, so every matched detection's box reaches
\* the filter.
C22_ReUpdateOrdering ==
    \A u \in 1..Len(last.filter) :
        LET k   == last.steps[u]
            ops == last.filter[u]
        IN  /\ k >= 1
            /\ Cardinality(MeasurementUpdates(ops)) = k
            /\ Cardinality(Predicts(ops)) = k - 1
            /\ \A n \in 1..Len(ops) : ops[n].op = (IF n % 2 = 1 THEN "update" ELSE "predict")
            /\ ops # <<>>
            /\ ops[Len(ops)].op = "update"
            /\ ops[Len(ops)].z = MeasurementOf(last.detections[AllMatched[u][1]].bbox)

\* the re-update ordering of the calls that update no track twice
C22_OrderingWithoutDoubleUpdate ==
    (\A a, b \in 1..Len(AllMatched) : a # b => AllMatched[a][2] # AllMatched[b][2])
        => C22_ReUpdateOrdering


\* C23: for every live track the observation ring is never empty, its records are
\* in non-decreasing time_step order from front to back, and the last record's
\* time_step is at most the track's age and equals the age at which the track was
\* last associated (or 0 for a never-matched newborn).
C23_RingOrdered ==
    \A p \in AllLive :
        LET tracker == trackers[p[1]][p[2]]
            ring    == tracker.prev_observations
        IN  /\ ring # <<>>
            /\ \A k, l \in 1..Len(ring) : k < l => ring[k].time_step <= ring[l].time_step
            /\ ring[Len(ring)].time_step <= tracker.age
            /\ ring[Len(ring)].time_step = tracker.lived - tracker.missed

\* C23's case: a track whose ring holds records of three different ages, the last
\* two more than one call apart, and a track that was associated after its birth
\* and has missed a call since
C23_Witness ==
    /\ \E p \in AllLive :
          LET ring == trackers[p[1]][p[2]].prev_observations
          IN  /\ Len(ring) >= 3
              /\ ring[1].time_step < ring[2].time_step
              /\ ring[2].time_step + 1 < ring[3].time_step
    /\ \E i \in Instances : \E k \in 1..Len(last.before) :
          /\ last.inst = i
          /\ last.before[k].time_since_update >= 2
          /\ get_last_observation(last.before[k]) # last.before[k].prev_observations[1].bbox


\* the ring of every live track holds at most as many records as the delta_t the
\* tracker instance was constructed with
C24_RingWithinDeltaT ==
    \A i \in Instances :
        cfg[i].delta_t >= 1 =>
            \A k \in 1..Len(trackers[i]) :
                Len(trackers[i][k].prev_observations) <= cfg[i].delta_t

\* an update call that updates, once, a track whose ring holds delta_t records
\* drops the oldest record and appends the new one
C24_OldestDropped ==
    \A i \in Instances :
        (calls' = calls + 1 /\ last'.inst = i /\ cfg[i].delta_t >= 1) =>
            \A k \in 1..Len(last'.before) :
                LET ring    == last'.before[k].prev_observations
                    matched == last'.m1 \o last'.m2 \o last'.m3
                    pair    == CHOOSE m \in 1..Len(matched) : matched[m][2] = k
                IN  (UpdatesOf(matched, k) = 1 /\ Len(ring) = cfg[i].delta_t) =>
                        trackers'[i][k].prev_observations =
                            Append(Tail(ring),
                                   [time_step |-> trackers'[i][k].age,
                                    bbox |-> last'.detections[matched[pair][1]].bbox])

\* C24: for a tracker constructed with delta_t >= 1, the observation ring of every
\* live track holds at most delta_t records after any sequence of update calls,
\* where delta_t is the value passed to the OCSort constructor, regardless of which
\* path created the track and of the class of its detections; on an append to a
\* ring holding delta_t records exactly the oldest record is dropped.
C24_RingCapacity == [](C24_RingWithinDeltaT) /\ [][C24_OldestDropped]_vars

\* the ring capacity of the tracks that carry the delta_t of their tracker instance
C24_WithinOwnDeltaT ==
    \A p \in AllLive :
        LET tracker == trackers[p[1]][p[2]]
        IN  tracker.delta_t >= 1 => Len(tracker.prev_observations) <= tracker.delta_t


\* the distance of a record from age - delta_t, the subtraction not saturated
TrueDistance(t, obs) == Abs(obs.time_step - (t.age - t.delta_t))

\* the positions of the ring whose records are nearest to age - delta_t
Nearest(t) ==
    {i \in 1..Len(t.prev_observations) :
        \A j \in 1..Len(t.prev_observations) :
            TrueDistance(t, t.prev_observations[i]) <= TrueDistance(t, t.prev_observations[j])}

\* C25: get_observation_dt_time_steps_away returns the box of the ring record whose
\* time_step minimizes |time_step - (age - delta_t)|, choosing the earliest
\* (front-most) record on ties; when age < delta_t the result is the same as
\* minimizing against the (negative) true difference: the saturating subtraction
\* does not change which record is chosen.
C25_NearestRecordFirstOnTies ==
    scen.kind = "observation_dt" =>
        LET t     == trackers[1][1]
            first == CHOOSE i \in Nearest(t) : \A j \in Nearest(t) : i <= j
        IN  scen.bbox = t.prev_observations[first].bbox

\* C25's case: the call returned for a track younger than its delta_t whose ring
\* has two nearest records
C25_Witness ==
    /\ scen.kind = "observation_dt"
    /\ trackers[1][1].age < trackers[1][1].delta_t
    /\ Cardinality(Nearest(trackers[1][1])) >= 2

\* a call that returned for a track at least as old as its delta_t whose two
\* nearest records lie on either side of age - delta_t
C25_TieAcrossTarget ==
    /\ scen.kind = "observation_dt"
    /\ trackers[1][1].age >= trackers[1][1].delta_t
    /\ \E i, j \in Nearest(trackers[1][1]) :
          trackers[1][1].prev_observations[i].time_step
              < trackers[1][1].prev_observations[j].time_step


\* n / d rounded to the nearest integer, for n >= 0 and d > 0
RoundDiv(n, d) == (2 * n + d) \div (2 * d)

\* C26: for every detection/track pair the base entry of the cost matrix equals
\* -round(IoU * 10^4), the scaled IoU rounded to the nearest integer and negated,
\* for every IoU value in [0, 1] (IoU = 2/3 gives -6667), and the gate compares
\* that same rounded value against iou_threshold * 10^4.
C26_CostIsRoundedIou ==
    scen.kind = "cost" =>
        LET f       == iou(scen.bbox_1, scen.bbox_2)
            rounded == RoundDiv(f.num * IOU_MULTIPLIER, f.den)
        IN  /\ scen.cost = -rounded
            /\ scen.matched <=> (rounded >= scen.iou_threshold)

\* the cost entry is the scaled IoU with its fraction dropped, and the gate
\* compares that entry with the threshold
C26_CostIsTruncatedIou ==
    scen.kind = "cost" =>
        LET f == iou(scen.bbox_1, scen.bbox_2)
        IN  /\ scen.cost = -((f.num * IOU_MULTIPLIER) \div f.den)
            /\ scen.matched <=> (-scen.cost >= scen.iou_threshold)

\* a pair of IoU 2/3 was given the entry -6666 and failed the gate at 0.6667
C26_TwoThirds ==
    /\ scen.kind = "cost"
    /\ iou(scen.bbox_1, scen.bbox_2) = [num |-> 4, den |-> 6]
    /\ scen.iou_threshold = 6667
    /\ scen.cost = -6666
    /\ ~scen.matched

=============================================================================
